---- MODULE Spec2Model ----
(***************************************************************************)
(* Model of perf's Runner (src/perf/_runner.py): argument resolution       *)
(* (_process_args), the task registry (_check_worker_task, _main), the     *)
(* master orchestration (_spawn_workers, _spawn_worker), the compare       *)
(* driver (_compare_to), the worker path (_worker, _display_result) and    *)
(* the loop calibrator a calibration worker runs.                          *)
(***************************************************************************)
EXTENDS Integers, Sequences, FiniteSets, TLC

VARIABLES
    defaults,     \* argparser defaults set by Runner.__init__ (processes, values, warmups, loops)
    given,        \* the namespace argparse returned, before _process_args changed it
    args,         \* self.args: the parsed namespace, mutated in place by _process_args
    parsed,       \* self.args is not None
    pc,           \* position of the process running the Runner
    exitStatus,   \* exit status once pc = "exit" (0 while running)
    exitWhy,      \* what ended the process: "none", "args", "interrupt"
    worker_task,  \* self._worker_task
    bench_names,  \* self._bench_names
    calls,        \* registration operations called so far: name, id at call, outcome
    cur,          \* the registration being served: its name and python of the pass
    run,          \* locals of _spawn_workers: process, nprocess, calibrate, old_loops, bench
    cmds,         \* worker commands built by _worker_cmd during the current _spawn_workers
    child,        \* the worker child process of _spawn_worker: state, payload, exit code
    orphans,      \* earlier children that were still alive when the next one was created
    rd,           \* locals of _spawn_worker after the read: bench_json, exitcode
    everSpawned,  \* some worker child was created by this process
    files,        \* the --output and --append files: exists, content (benchmark names)
    pipeOut,      \* suites written to the --pipe fd by this process (worker mode)
    compared,     \* calls of timeit_compare_benchs: <<name_ref, bench_ref, name_changed, bench_changed>>
    passes,       \* benches collected by _compare_to (benchs)
    cal,          \* the calibrator: loops, dt, previous dt, min_time, max_time, state
    env,          \* the machine: isolated CPUs, whether a process can be pinned
    obs           \* observed: runs of _process_args, last parse_args result, warnings printed,
                  \* the iteration plan of the last Run created

vars == <<defaults, given, args, parsed, pc, exitStatus, exitWhy, worker_task,
          bench_names, calls, cur, run, cmds, child, orphans, rd, everSpawned, files,
          pipeOut, compared, passes, cal, env, obs>>

----------------------------------------------------------------------------
(* Bounds of the model *)

\* default_processes ranges over 1..MaxDefaultProcesses
MaxDefaultProcesses == 8
\* default_values ranges over 1..MaxDefaultValues
MaxDefaultValues == 4
\* -p, -n, -w, -l given on the command line range up to MaxOpt
MaxOpt == 2
\* number of registration operations the program calls when it orchestrates workers
MaxRegs == 2
\* number of registration operations the program calls when it is a worker
MaxWorkerRegs == 3

----------------------------------------------------------------------------
(* Python values *)

\* None, and a value that is not None
None == <<>>
Some(x) == <<x>>

\* truth value of an optional int (None and 0 are false)
TruthyInt(o) == o /= None /\ o[1] /= 0

\* truth value of an optional string; option strings are non-empty here
TruthyStr(o) == o /= None

Max(a, b) == IF a >= b THEN a ELSE b

----------------------------------------------------------------------------
(* Runner.__init__ and the parsed namespace *)

\* min_time is kept in nanoseconds: 0.1 s by default, 1e-9 s under --debug-single-value
DefaultMinTime == 100000000
DebugMinTime == 1

\* the namespace argparse returns for a command line without any option
DefaultArgs(d) ==
    [rigorous |-> FALSE, fast |-> FALSE, debug_single_value |-> FALSE,
     processes |-> d.processes, values |-> d.values, warmups |-> d.warmups,
     loops |-> d.loops, verbose |-> FALSE, quiet |-> FALSE, pipe |-> None,
     output |-> None, append |-> None, min_time |-> DefaultMinTime,
     worker |-> FALSE, worker_task |-> None, calibrate |-> FALSE,
     affinity |-> None, python |-> "python", compare_to |-> None]

----------------------------------------------------------------------------
(* Runner._process_args *)

QuietVerbose(a) ==
    IF TruthyInt(a.pipe) THEN [a EXCEPT !.quiet = TRUE, !.verbose = FALSE]
    ELSE IF a.quiet THEN [a EXCEPT !.verbose = FALSE]
    ELSE a

\* mutant: --debug-single-value leaves the warmups alone
PolicyCountsDebugKeepsWarmups(a, d) ==
    IF a.rigorous
    THEN [a EXCEPT !.processes = d.processes * 2]
    ELSE IF a.fast
    THEN [a EXCEPT !.processes = Max(d.processes \div 2, 3),
                   !.values = Max((d.values * 2) \div 3, 2)]
    ELSE IF a.debug_single_value
    THEN [a EXCEPT !.processes = 1, !.values = 1, !.loops = 1,
                   !.min_time = DebugMinTime]
    ELSE a

\* mutant: --rigorous also scales values (the line commented out at 241)
PolicyCountsRigorousValues(a, d) ==
    IF a.rigorous
    THEN [a EXCEPT !.processes = d.processes * 2,
                   !.values = (d.values * 5) \div 3]
    ELSE IF a.fast
    THEN [a EXCEPT !.processes = Max(d.processes \div 2, 3),
                   !.values = Max((d.values * 2) \div 3, 2)]
    ELSE IF a.debug_single_value
    THEN [a EXCEPT !.processes = 1, !.warmups = 0, !.values = 1, !.loops = 1,
                   !.min_time = DebugMinTime]
    ELSE a

\* lines 237-252: the rigorous / fast / debug-single-value chain
PolicyCounts(a, d) ==
    IF a.rigorous
    THEN [a EXCEPT !.processes = d.processes * 2]
    ELSE IF a.fast
    THEN [a EXCEPT !.processes = Max(d.processes \div 2, 3),
                   !.values = Max((d.values * 2) \div 3, 2)]
    ELSE IF a.debug_single_value
    THEN [a EXCEPT !.processes = 1, !.warmups = 0, !.values = 1, !.loops = 1,
                   !.min_time = DebugMinTime]
    ELSE a

\* lines 260-263: what --calibrate sets
CalibratePolicy(a) ==
    IF a.calibrate THEN [a EXCEPT !.loops = 0, !.warmups = 0, !.values = 0] ELSE a

\* mutant: only --output is tested against --compare-to
CompareConflictOutputOnly(a) ==
    TruthyStr(a.compare_to) /\ TruthyStr(a.output)

\* lines 296-301: --compare-to given with --output or --append
CompareConflict(a) ==
    TruthyStr(a.compare_to) /\ (TruthyStr(a.output) \/ TruthyStr(a.append))

\* the sys.exit(1) conditions of _process_args, in the order of the code
ArgsFatal(a, exists) ==
    \/ a.calibrate /\ ~a.worker
    \/ TruthyStr(a.output) /\ exists
    \/ TruthyInt(a.worker_task) /\ ~a.worker
    \/ CompareConflict(a)

\* the namespace as _process_args leaves it: the --calibrate assignments are
\* reached only when the process did not exit at line 258
ProcessArgs(a, d) ==
    LET a1 == QuietVerbose(a)
        a2 == PolicyCounts(a1, d)
    IN IF a2.calibrate /\ ~a2.worker THEN a2 ELSE CalibratePolicy(a2)

----------------------------------------------------------------------------
(* Runner.parse_args / Runner._set_args *)

\* the first parse_args(): called by the program, or by the first registration
\* operation through _check_worker_task; _process_args may end the process
ParseArgs ==
    /\ pc = "start"
    /\ ~parsed
    /\ parsed' = TRUE
    /\ args' = ProcessArgs(args, defaults)
    /\ IF ArgsFatal(args', files.output.exists)
       THEN pc' = "exit" /\ exitStatus' = 1 /\ exitWhy' = "args"
       ELSE pc' = "idle" /\ UNCHANGED <<exitStatus, exitWhy>>
    /\ obs' = [obs EXCEPT !.resolved = obs.resolved + 1, !.parse = "resolved"]
    /\ UNCHANGED <<defaults, env, given, orphans, worker_task, bench_names, calls, cur, run,
                   cmds, child, rd, everSpawned, files, pipeOut, compared, passes, cal>>

\* mutant: _set_args replaces and resolves the arguments again
SetArgsReplaces(old, isParsed, new, d) ==
    [raised |-> FALSE, args |-> ProcessArgs(new, d), resolved |-> 1]

\* _set_args: raises when self.args is set, else stores and resolves the namespace
SetArgs(old, isParsed, new, d) ==
    IF isParsed THEN [raised |-> TRUE, args |-> old, resolved |-> 0]
    ELSE [raised |-> FALSE, args |-> ProcessArgs(new, d), resolved |-> 1]

\* namespaces a later parse_args(args) call of the program would produce
ExplicitArgs == {[given EXCEPT !.rigorous = ~given.rigorous],
                 [given EXCEPT !.processes = given.processes + 1]}

\* a later parse_args(): self.args is returned as it is
ParseArgsAgain ==
    /\ pc = "idle"
    /\ parsed
    /\ obs' = [obs EXCEPT !.parse = "returned"]
    /\ UNCHANGED <<defaults, env, given, args, parsed, pc, exitStatus, exitWhy,
                   worker_task, bench_names, calls, cur, run, cmds, child, orphans, rd,
                   everSpawned, files, pipeOut, compared, passes, cal>>

\* a later parse_args(args): argparse parses, then _set_args raises RuntimeError
ParseArgsExplicit ==
    /\ pc = "idle"
    /\ parsed
    /\ \E new \in ExplicitArgs :
          LET r == SetArgs(args, parsed, new, defaults)
          IN /\ args' = r.args
             /\ obs' = [obs EXCEPT !.resolved = obs.resolved + r.resolved,
                                   !.parse = IF r.raised THEN "raised" ELSE "resolved"]
    /\ UNCHANGED <<defaults, env, given, parsed, pc, exitStatus, exitWhy,
                   worker_task, bench_names, calls, cur, run, cmds, child, orphans, rd,
                   everSpawned, files, pipeOut, compared, passes, cal>>

----------------------------------------------------------------------------
(* Task registry: _check_worker_task and _main *)

\* benchmark names the program registers
Names == {"a", "b", "c"}

Call(name, outcome) == [name |-> name, id |-> worker_task, outcome |-> outcome]

\* mutant: _main does not count the task
NextTaskIdStuck(wt) == wt

\* _main, line 399: the next task id
NextTaskId(wt) == wt + 1

\* mutant: a skipped registration does not consume an id
CheckWorkerTaskSkipsNoId(a, wt) ==
    IF a.worker_task = None THEN [run |-> TRUE, wt |-> wt]
    ELSE IF a.worker_task[1] /= wt THEN [run |-> FALSE, wt |-> wt]
    ELSE [run |-> TRUE, wt |-> wt]

\* _check_worker_task: whether the registration goes on to _main, and the counter
CheckWorkerTask(a, wt) ==
    IF a.worker_task = None THEN [run |-> TRUE, wt |-> wt]
    ELSE IF a.worker_task[1] /= wt THEN [run |-> FALSE, wt |-> wt + 1]
    ELSE [run |-> TRUE, wt |-> wt]

\* mutant: the name check of _main is missing
DuplicatedNever(name, names) == FALSE

\* _main, lines 380-381
Duplicated(name, names) == name \in names

\* _spawn_workers, lines 585-589: number of workers of one run
NProcess(a) == IF a.loops = 0 THEN a.processes + 1 ELSE a.processes

\* _spawn_workers, lines 581-590: the locals at the start of a run
BeginRun(a) ==
    [process |-> 1, nprocess |-> NProcess(a), calibrate |-> (a.loops = 0),
     old_loops |-> a.loops, bench |-> <<>>]

CanRegister ==
    pc = "idle" /\ Len(calls) < (IF args.worker THEN MaxWorkerRegs ELSE MaxRegs)

\* a registration whose id is not the --worker-task target returns None
RegisterSkip(name) ==
    /\ CanRegister
    /\ ~CheckWorkerTask(args, worker_task).run
    /\ worker_task' = CheckWorkerTask(args, worker_task).wt
    /\ calls' = Append(calls, Call(name, "skipped"))
    /\ UNCHANGED <<defaults, env, obs, given, orphans, args, parsed, pc, exitStatus, exitWhy,
                   bench_names, cur, run, cmds, child, rd, everSpawned, files,
                   pipeOut, compared, passes, cal>>

\* _main raises ValueError("duplicated benchmark name"); the program goes on
RegisterDuplicate(name) ==
    /\ CanRegister
    /\ CheckWorkerTask(args, worker_task).run
    /\ Duplicated(name, bench_names)
    /\ calls' = Append(calls, Call(name, "duplicated"))
    /\ UNCHANGED <<defaults, env, obs, given, orphans, args, parsed, pc, exitStatus, exitWhy,
                   worker_task, bench_names, cur, run, cmds, child, rd, everSpawned,
                   files, pipeOut, compared, passes, cal>>

Accepted(name) ==
    /\ CanRegister
    /\ CheckWorkerTask(args, worker_task).run
    /\ ~Duplicated(name, bench_names)
    /\ bench_names' = bench_names \cup {name}

\* _main dispatches to _worker
RegisterWorker(name) ==
    /\ Accepted(name)
    /\ args.worker
    /\ pc' = "w_run"
    /\ cur' = [name |-> name, python |-> args.python]
    /\ UNCHANGED <<defaults, env, obs, given, orphans, args, parsed, exitStatus, exitWhy, worker_task,
                   calls, run, cmds, child, rd, everSpawned, files, pipeOut,
                   compared, passes, cal>>

\* mutant: the pass of args.python comes first
ComparePythonsChangedFirst(a) == <<a.python, a.compare_to[1]>>

\* _compare_to, lines 646-650 and 659: the pythons of the two passes, in order
ComparePythons(a) == <<a.compare_to[1], a.python>>

\* _main dispatches to _compare_to, which starts the pass of the reference python
RegisterCompare(name) ==
    /\ Accepted(name)
    /\ ~args.worker
    /\ TruthyStr(args.compare_to)
    /\ pc' = "sw_loop"
    /\ cur' = [name |-> name, python |-> ComparePythons(args)[1]]
    /\ run' = BeginRun(args)
    /\ cmds' = <<>>
    /\ passes' = <<>>
    /\ UNCHANGED <<defaults, env, obs, given, orphans, args, parsed, exitStatus, exitWhy, worker_task,
                   calls, child, rd, everSpawned, files, pipeOut, compared, cal>>

\* _main dispatches to _master, which starts _spawn_workers
RegisterMaster(name) ==
    /\ Accepted(name)
    /\ ~args.worker
    /\ ~TruthyStr(args.compare_to)
    /\ pc' = "sw_loop"
    /\ cur' = [name |-> name, python |-> args.python]
    /\ run' = BeginRun(args)
    /\ cmds' = <<>>
    /\ UNCHANGED <<defaults, env, obs, given, orphans, args, parsed, exitStatus, exitWhy, worker_task,
                   calls, child, rd, everSpawned, files, pipeOut, compared, passes, cal>>

----------------------------------------------------------------------------
(* Master: _worker_cmd, _spawn_worker, _spawn_workers *)

\* loop counts a calibration worker may report in its Run
CalLoops == {1, 4}

NoChild == [state |-> "none", calibrate |-> FALSE, loops |-> 0, kind |-> "none",
            runloops |-> 0, code |-> 0]

NoRead == [kind |-> "none", runloops |-> 0, exitcode |-> 0]

\* the options of the worker command line that the orchestration decides
WorkerCmd(python, calibrate, a, wt) ==
    [python |-> python, worker_task |-> wt, values |-> a.values,
     warmups |-> a.warmups, loops |-> a.loops, min_time |-> a.min_time,
     calibrate |-> calibrate, affinity |-> a.affinity]

\* the child is alive: created, and neither exited nor killed
Alive(c) == c.state \in {"running", "closed"}

\* pipe create, _worker_cmd and subprocess.Popen: the child exists from here on
SpawnWorker ==
    /\ pc = "sw_loop"
    /\ run.process <= run.nprocess
    /\ cmds' = Append(cmds, WorkerCmd(cur.python, run.calibrate, args, worker_task))
    /\ child' = [NoChild EXCEPT !.state = "running", !.calibrate = run.calibrate,
                                !.loops = args.loops]
    /\ orphans' = IF Alive(child) THEN orphans + 1 ELSE orphans
    /\ everSpawned' = TRUE
    /\ rd' = NoRead
    /\ pc' = "popened"
    /\ UNCHANGED <<defaults, env, obs, given, args, parsed, exitStatus, exitWhy, worker_task,
                   bench_names, calls, cur, run, files, pipeOut, compared, passes, cal>>

\* the `with wpipe` block is left (write end closed) and popen_killer is entered
EnterKiller ==
    /\ pc = "popened"
    /\ pc' = "read"
    /\ UNCHANGED <<defaults, env, obs, given, orphans, args, parsed, exitStatus, exitWhy, worker_task,
                   bench_names, calls, cur, run, cmds, child, rd, everSpawned, files,
                   pipeOut, compared, passes, cal>>

\* rfile.read() returns at EOF: the child has closed its write end or is gone
ReadPipe ==
    /\ pc = "read"
    /\ child.state \in {"closed", "exited"}
    /\ rd' = [rd EXCEPT !.kind = child.kind, !.runloops = child.runloops]
    /\ pc' = "wait"
    /\ UNCHANGED <<defaults, env, obs, given, orphans, args, parsed, exitStatus, exitWhy, worker_task,
                   bench_names, calls, cur, run, cmds, child, everSpawned, files,
                   pipeOut, compared, passes, cal>>

\* mutant: the exit of the child is polled, not waited for
WaitReturnsEarly(c) == c.state \in {"closed", "exited"}

\* proc.wait() (line 533) blocks until the child has exited
WaitReturns(c) == c.state = "exited"

\* the exited child is reaped by the wait
Reap(c) == IF c.state = "exited" THEN [c EXCEPT !.state = "reaped"] ELSE c

\* proc.wait() returns once the child has exited
Wait ==
    /\ pc = "wait"
    /\ WaitReturns(child)
    /\ rd' = [rd EXCEPT !.exitcode = child.code]
    /\ child' = Reap(child)
    /\ pc' = "merge"
    /\ UNCHANGED <<defaults, env, obs, given, orphans, args, parsed, exitStatus, exitWhy, worker_task,
                   bench_names, calls, cur, run, cmds, everSpawned, files, pipeOut,
                   compared, passes, cal>>

\* mutant: the exit code of the worker is not looked at
WorkerErrorIgnoresExit(r) ==
    IF r.kind = "empty" THEN "RuntimeError"
    ELSE IF r.kind = "multi" THEN "ValueError"
    ELSE "none"

\* lines 535-539 and 597-603: what makes the master raise
WorkerError(r) ==
    IF r.exitcode /= 0 THEN "RuntimeError"
    ELSE IF r.kind = "empty" THEN "RuntimeError"
    ELSE IF r.kind = "multi" THEN "ValueError"
    ELSE "none"

\* the exception leaves _spawn_workers and _main; the program goes on
WorkerFailed ==
    /\ pc = "merge"
    /\ WorkerError(rd) /= "none"
    /\ calls' = Append(calls, Call(cur.name, WorkerError(rd)))
    /\ pc' = "idle"
    /\ UNCHANGED <<defaults, env, obs, given, orphans, args, parsed, exitStatus, exitWhy, worker_task,
                   bench_names, cur, run, cmds, child, rd, everSpawned, files,
                   pipeOut, compared, passes, cal>>

\* the Run of a worker's Benchmark
WorkerRunOf(r, wasCalibrate, process) ==
    [loops |-> r.runloops, calibration |-> wasCalibrate, process |-> process]

\* mutant: the calibration worker's Benchmark is not kept in the aggregate
AddRunsSkipCalibration(bench, r) ==
    IF r.calibration THEN bench ELSE Append(bench, r)

\* mutant: the Runs of a later worker are put in front of the aggregate
AddRunsInFront(bench, r) == <<r>> \o bench

\* lines 624-627: the first worker seeds the aggregate, the others add their Runs
AddRuns(bench, r) == Append(bench, r)

\* mutant: the calibrated loop count is not written back
LoopsAfterKeep(a, wasCalibrate, r) == a.loops

\* lines 614-619: the calibration worker fixes args.loops
LoopsAfter(a, wasCalibrate, r) == IF wasCalibrate THEN r.loops ELSE a.loops

\* lines 604-629: the rest of the loop body for a worker that delivered one Benchmark
MergeWorker ==
    /\ pc = "merge"
    /\ WorkerError(rd) = "none"
    /\ LET r == WorkerRunOf(rd, run.calibrate, run.process)
       IN /\ args' = [args EXCEPT !.loops = LoopsAfter(args, run.calibrate, r)]
          /\ run' = [run EXCEPT !.calibrate = FALSE,
                                !.bench = AddRuns(run.bench, r),
                                !.process = run.process + 1]
    /\ pc' = "sw_loop"
    /\ UNCHANGED <<defaults, env, obs, given, orphans, parsed, exitStatus, exitWhy, worker_task,
                   bench_names, calls, cur, cmds, child, rd, everSpawned, files,
                   pipeOut, compared, passes, cal>>

\* mutant: the calibrated loops stay in args
RestoreLoopsForgets(a, r) == a

\* lines 634-636
RestoreLoops(a, r) == [a EXCEPT !.loops = r.old_loops]

\* the for loop is over: restore loops and return the aggregate
SpawnWorkersReturn ==
    /\ pc = "sw_loop"
    /\ run.process > run.nprocess
    /\ args' = RestoreLoops(args, run)
    /\ pc' = "sw_ret"
    /\ UNCHANGED <<defaults, env, obs, given, orphans, parsed, exitStatus, exitWhy, worker_task,
                   bench_names, calls, cur, run, cmds, child, rd, everSpawned, files,
                   pipeOut, compared, passes, cal>>

----------------------------------------------------------------------------
(* The worker child of the master *)

\* the child writes its suite to the pipe and closes the write end
ChildWrite ==
    /\ child.state = "running"
    /\ \E kind \in {"ok", "empty", "multi"} :
       \E l \in (IF child.calibrate THEN CalLoops ELSE {child.loops}) :
          child' = [child EXCEPT !.state = "closed", !.kind = kind,
                                 !.runloops = IF kind = "empty" THEN 0 ELSE l]
    /\ UNCHANGED <<defaults, env, obs, given, orphans, args, parsed, pc, exitStatus, exitWhy,
                   worker_task, bench_names, calls, cur, run, cmds, rd, everSpawned,
                   files, pipeOut, compared, passes, cal>>

\* the child exits after its write
ChildExit ==
    /\ child.state = "closed"
    /\ \E code \in {0, 1} : child' = [child EXCEPT !.state = "exited", !.code = code]
    /\ UNCHANGED <<defaults, env, obs, given, orphans, args, parsed, pc, exitStatus, exitWhy,
                   worker_task, bench_names, calls, cur, run, cmds, rd, everSpawned,
                   files, pipeOut, compared, passes, cal>>

\* the child dies before writing anything
ChildCrash ==
    /\ child.state = "running"
    /\ child' = [child EXCEPT !.state = "exited", !.kind = "empty", !.code = 1]
    /\ UNCHANGED <<defaults, env, obs, given, orphans, args, parsed, pc, exitStatus, exitWhy,
                   worker_task, bench_names, calls, cur, run, cmds, rd, everSpawned,
                   files, pipeOut, compared, passes, cal>>

----------------------------------------------------------------------------
(* _display_result, _master, _compare_to, _worker *)

\* mutant: the pipe is tested for truth, so fd 0 is not written to
DisplayPipeTruthy(out, a, name) ==
    IF TruthyInt(a.pipe) THEN Append(out, name) ELSE out

\* lines 548-557: the suite goes to the pipe when --pipe is given
DisplayPipe(out, a, name) ==
    IF a.pipe /= None THEN Append(out, name) ELSE out

AddRunsFile(f, name) == [exists |-> TRUE, content |-> Append(f.content, name)]

DumpFile(f, name) == [exists |-> TRUE, content |-> <<name>>]

\* mutant: --output is dumped anew for every benchmark
DisplayFilesAlwaysDumps(f, a, wt, name) ==
    [append |-> IF TruthyStr(a.append) THEN AddRunsFile(f.append, name) ELSE f.append,
     output |-> IF TruthyStr(a.output) THEN DumpFile(f.output, name) ELSE f.output]

\* lines 571-578: --append always appends, --output appends from the second benchmark on
DisplayFiles(f, a, wt, name) ==
    [append |-> IF TruthyStr(a.append) THEN AddRunsFile(f.append, name) ELSE f.append,
     output |-> IF TruthyStr(a.output)
                THEN (IF wt >= 1 THEN AddRunsFile(f.output, name)
                                 ELSE DumpFile(f.output, name))
                ELSE f.output]

\* _master displays the aggregate, then _main counts the task
MasterDisplay ==
    /\ pc = "sw_ret"
    /\ ~TruthyStr(args.compare_to)
    /\ pipeOut' = DisplayPipe(pipeOut, args, cur.name)
    /\ files' = DisplayFiles(files, args, worker_task, cur.name)
    /\ worker_task' = NextTaskId(worker_task)
    /\ calls' = Append(calls, Call(cur.name, "bench"))
    /\ pc' = "idle"
    /\ UNCHANGED <<defaults, env, obs, given, orphans, args, parsed, exitStatus, exitWhy, bench_names, cur, run,
                   cmds, child, rd, everSpawned, compared, passes, cal>>

\* _compare_to: the reference pass is over, the pass of args.python starts
ComparePass2 ==
    /\ pc = "sw_ret"
    /\ TruthyStr(args.compare_to)
    /\ Len(passes) = 0
    /\ passes' = Append(passes, [python |-> cur.python, bench |-> run.bench, cmds |-> cmds])
    /\ pipeOut' = IF args.verbose THEN DisplayPipe(pipeOut, args, cur.name) ELSE pipeOut
    /\ files' = IF args.verbose THEN DisplayFiles(files, args, worker_task, cur.name)
                ELSE files
    /\ cur' = [cur EXCEPT !.python = ComparePythons(args)[2]]
    /\ run' = BeginRun(args)
    /\ cmds' = <<>>
    /\ pc' = "sw_loop"
    /\ UNCHANGED <<defaults, env, obs, given, orphans, args, parsed, exitStatus, exitWhy, worker_task,
                   bench_names, calls, child, rd, everSpawned, compared, cal>>

\* _compare_to: both passes are over, the comparator is called; _main counts the task
CompareFinish ==
    /\ pc = "sw_ret"
    /\ TruthyStr(args.compare_to)
    /\ Len(passes) = 1
    /\ passes' = Append(passes, [python |-> cur.python, bench |-> run.bench, cmds |-> cmds])
    /\ pipeOut' = IF args.verbose THEN DisplayPipe(pipeOut, args, cur.name) ELSE pipeOut
    /\ files' = IF args.verbose THEN DisplayFiles(files, args, worker_task, cur.name)
                ELSE files
    /\ compared' = Append(compared, <<passes[1].python, passes[1].bench,
                                      cur.python, run.bench>>)
    /\ worker_task' = NextTaskId(worker_task)
    /\ calls' = Append(calls, Call(cur.name, "compared"))
    /\ pc' = "idle"
    /\ UNCHANGED <<defaults, env, obs, given, orphans, args, parsed, exitStatus, exitWhy, bench_names, cur, run,
                   cmds, child, rd, everSpawned, cal>>

\* format_cpu_list: a CPU set as the list of its maximal ranges <<first, last>>,
\* in increasing order ("2-3" is <<<<2, 3>>>>, "0,2-3" is <<<<0, 0>>, <<2, 3>>>>)
RECURSIVE FormatCpuList(_)
FormatCpuList(cpus) ==
    IF cpus = {} THEN <<>>
    ELSE LET lo == CHOOSE c \in cpus : \A d \in cpus : c <= d
             hi == CHOOSE h \in cpus : (lo..h) \subseteq cpus /\ (h + 1) \notin cpus
         IN <<<<lo, hi>>>> \o FormatCpuList(cpus \ (lo..hi))

\* parse_cpu_list: the CPUs of a list of ranges
ParseCpuList(list) == UNION {list[i][1]..list[i][2] : i \in 1..Len(list)}

\* a machine without isolated CPUs on which pinning works
PlainMachine == [isolated |-> {}, canPin |-> TRUE]

NoObs == [resolved |-> 0, parse |-> "none", warnings |-> 0, plan |-> <<>>]

\* mutant: the values are yielded before the warmups
RangeValuesFirst(warmups, values) ==
    [i \in 1..values |-> <<FALSE, i>>] \o [i \in 1..warmups |-> <<TRUE, i>>]

\* _range: the entries (is_warmup, number) in the order they are yielded
Range(warmups, values) ==
    [i \in 1..warmups |-> <<TRUE, i>>] \o [i \in 1..values |-> <<FALSE, i>>]

\* mutant: the warning is printed under quiet too
CpuAffinityWarnsQuiet(a, e) ==
    LET isolated == a.affinity = None
        cpus == IF isolated THEN e.isolated ELSE ParseCpuList(a.affinity[1])
    IN IF cpus = {} THEN [exit |-> FALSE, args |-> a, warnings |-> 0]
       ELSE IF e.canPin
       THEN [exit |-> FALSE, warnings |-> 0,
             args |-> IF isolated THEN [a EXCEPT !.affinity = Some(FormatCpuList(cpus))]
                      ELSE a]
       ELSE IF ~isolated THEN [exit |-> TRUE, args |-> a, warnings |-> 0]
       ELSE [exit |-> FALSE, args |-> a, warnings |-> 1]

\* _cpu_affinity: whether the process exits, self.args afterwards, warnings printed
CpuAffinity(a, e) ==
    LET isolated == a.affinity = None
        cpus == IF isolated THEN e.isolated ELSE ParseCpuList(a.affinity[1])
    IN IF cpus = {} THEN [exit |-> FALSE, args |-> a, warnings |-> 0]
       ELSE IF e.canPin
       THEN [exit |-> FALSE, warnings |-> 0,
             args |-> IF isolated THEN [a EXCEPT !.affinity = Some(FormatCpuList(cpus))]
                      ELSE a]
       ELSE IF ~isolated THEN [exit |-> TRUE, args |-> a, warnings |-> 0]
       ELSE [exit |-> FALSE, args |-> a, warnings |-> IF a.quiet THEN 0 ELSE 1]

\* the write end of --pipe is closed by the first write of the process
PipeClosed(out) == out /= <<>>

\* _worker: the process is pinned, the task's Run is created along _range and
\* emitted; _main counts the task. The process exits when it cannot be pinned to --affinity, and
\* the registration raises when the pipe cannot be opened any more.
WorkerRun ==
    /\ pc = "w_run"
    /\ LET r == CpuAffinity(args, env)
       IN /\ args' = r.args
          /\ obs' = [obs EXCEPT !.warnings = obs.warnings + r.warnings,
                                !.plan = IF r.exit THEN obs.plan
                                         ELSE Range(r.args.warmups, r.args.values)]
          /\ IF r.exit
             THEN /\ pc' = "exit" /\ exitStatus' = 1 /\ exitWhy' = "affinity"
                  /\ UNCHANGED <<pipeOut, files, worker_task, calls>>
             ELSE IF args.pipe /= None /\ PipeClosed(pipeOut)
             THEN /\ calls' = Append(calls, Call(cur.name, "OSError"))
                  /\ pc' = "idle"
                  /\ UNCHANGED <<pipeOut, files, worker_task, exitStatus, exitWhy>>
             ELSE /\ pipeOut' = DisplayPipe(pipeOut, r.args, cur.name)
                  /\ files' = DisplayFiles(files, r.args, worker_task, cur.name)
                  /\ worker_task' = NextTaskId(worker_task)
                  /\ calls' = Append(calls, Call(cur.name, "bench"))
                  /\ pc' = "idle"
                  /\ UNCHANGED <<exitStatus, exitWhy>>
    /\ UNCHANGED <<defaults, env, given, orphans, parsed, bench_names, cur, run,
                   cmds, child, rd, everSpawned, compared, passes, cal>>

----------------------------------------------------------------------------
(* KeyboardInterrupt *)

\* positions inside the try block of _main (lines 385-392)
InTry == {"sw_loop", "popened", "read", "wait", "merge", "sw_ret", "w_run"}

\* positions inside `with popen_killer(proc)` (lines 529-533)
InKiller == {"read", "wait"}

\* popen_killer on an exception: the child is killed and waited for
PopenKiller(c) == IF Alive(c) THEN [c EXCEPT !.state = "killed"] ELSE c

\* the interrupt is raised at the current position; _main prints and exits 1
Interrupt ==
    /\ pc \in InTry
    /\ child' = IF pc \in InKiller THEN PopenKiller(child) ELSE child
    /\ pc' = "exit"
    /\ exitStatus' = 1
    /\ exitWhy' = "interrupt"
    /\ UNCHANGED <<defaults, env, obs, given, orphans, args, parsed, worker_task, bench_names, calls, cur, run,
                   cmds, rd, everSpawned, files, pipeOut, compared, passes, cal>>

----------------------------------------------------------------------------
(* The calibrator a --calibrate worker runs: loops doubles from 1 until one        *)
(* measurement lasts min_time, or half of max_time. Durations are whole time units. *)

\* durations and time limits range over 0..MaxTime
MaxTime == 4
\* the calibrator is followed up to this loop count
MaxCalLoops == 16

NoCal == [state |-> "off", loops |-> 0, dt |-> 0, prev |-> 0, min_time |-> 0,
          max_time |-> 0]

\* mutant: the overshoot test compares with max_time, not with its half
CalReturnsFullMax(dt, min_time, max_time) == dt >= min_time \/ dt >= max_time

\* the two return tests: dt >= min_time, dt >= max_time / 2
CalReturns(dt, min_time, max_time) == dt >= min_time \/ 2 * dt >= max_time

\* dt <- measure(loops): any duration
CalMeasure ==
    /\ cal.state = "measure"
    /\ \E dt \in 0..MaxTime : cal' = [cal EXCEPT !.state = "test", !.dt = dt]
    /\ UNCHANGED <<defaults, env, obs, given, args, parsed, pc, exitStatus, exitWhy, worker_task,
                   bench_names, calls, cur, run, cmds, child, orphans, rd, everSpawned,
                   files, pipeOut, compared, passes>>

\* one of the return tests holds: loops is the result
CalReturn ==
    /\ cal.state = "test"
    /\ CalReturns(cal.dt, cal.min_time, cal.max_time)
    /\ cal' = [cal EXCEPT !.state = "done"]
    /\ UNCHANGED <<defaults, env, obs, given, args, parsed, pc, exitStatus, exitWhy, worker_task,
                   bench_names, calls, cur, run, cmds, child, orphans, rd, everSpawned,
                   files, pipeOut, compared, passes>>

\* no return test holds: loops doubles
CalDouble ==
    /\ cal.state = "test"
    /\ ~CalReturns(cal.dt, cal.min_time, cal.max_time)
    /\ cal.loops * 2 <= MaxCalLoops
    /\ cal' = [cal EXCEPT !.state = "measure", !.loops = cal.loops * 2,
                          !.prev = cal.dt, !.dt = 0]
    /\ UNCHANGED <<defaults, env, obs, given, args, parsed, pc, exitStatus, exitWhy, worker_task,
                   bench_names, calls, cur, run, cmds, child, orphans, rd, everSpawned,
                   files, pipeOut, compared, passes>>

----------------------------------------------------------------------------
(* Specification of a process running a Runner *)

NoRun == [process |-> 0, nprocess |-> 0, calibrate |-> FALSE, old_loops |-> 0,
          bench |-> <<>>]

NoFile == [exists |-> FALSE, content |-> <<>>]

\* Runner() defaults without a JIT (lines 73-92)
DefaultValues == 3
DefaultWarmups == 1
DefaultProcesses == 20
DefaultLoops == 0

RunnerDefaults ==
    [processes |-> DefaultProcesses, values |-> DefaultValues,
     warmups |-> DefaultWarmups, loops |-> DefaultLoops]

\* --loops values of the orchestration runs
LoopsGiven == {0, 3}

OptStr(s) == {None, Some(s)}

\* state common to every specification
InitRest ==
    /\ parsed = FALSE
    /\ pc = "start"
    /\ exitStatus = 0
    /\ exitWhy = "none"
    /\ worker_task = 0
    /\ bench_names = {}
    /\ calls = <<>>
    /\ cur = [name |-> "none", python |-> "none"]
    /\ run = NoRun
    /\ cmds = <<>>
    /\ child = NoChild
    /\ orphans = 0
    /\ rd = NoRead
    /\ everSpawned = FALSE
    /\ pipeOut = <<>>
    /\ compared = <<>>
    /\ passes = <<>>
    /\ obs = NoObs

Init ==
    /\ defaults = RunnerDefaults
    /\ \E w \in BOOLEAN, c \in BOOLEAN, p \in 1..MaxOpt, l \in LoopsGiven,
          wt \in {None} \cup {Some(k) : k \in 0..(MaxWorkerRegs - 1)},
          cmp \in OptStr("ref"), out \in OptStr("out"), app \in OptStr("app"),
          fd \in {None, Some(0), Some(3)} :
          /\ (~w => fd = None)
          /\ args = [DefaultArgs(defaults) EXCEPT
                        !.worker = w, !.calibrate = c, !.processes = p, !.loops = l,
                        !.worker_task = wt, !.compare_to = cmp, !.output = out,
                        !.append = app, !.pipe = fd]
    /\ given = args
    /\ \E e \in BOOLEAN :
          /\ (e => TruthyStr(args.output))
          /\ files = [output |-> [NoFile EXCEPT !.exists = e], append |-> NoFile]
    /\ cal = NoCal
    /\ env = PlainMachine
    /\ InitRest

Next ==
    \/ ParseArgs
    \/ \E name \in Names : RegisterSkip(name)
    \/ \E name \in Names : RegisterDuplicate(name)
    \/ \E name \in Names : RegisterWorker(name)
    \/ \E name \in Names : RegisterCompare(name)
    \/ \E name \in Names : RegisterMaster(name)
    \/ SpawnWorker
    \/ EnterKiller
    \/ ReadPipe
    \/ Wait
    \/ WorkerFailed
    \/ MergeWorker
    \/ SpawnWorkersReturn
    \/ ChildWrite
    \/ ChildExit
    \/ ChildCrash
    \/ MasterDisplay
    \/ ComparePass2
    \/ CompareFinish
    \/ WorkerRun
    \/ Interrupt

Spec == Init /\ [][Next]_vars

----------------------------------------------------------------------------
(* Properties of the orchestration, checked under Spec *)

Indices(q) == 1..Len(q)

\* a position of _spawn_workers or _spawn_worker
InRun == {"sw_loop", "popened", "read", "wait", "merge", "sw_ret"}

\* number of Runs of a Benchmark that measurement workers produced
Measured(bench) == Cardinality({i \in Indices(bench) : ~bench[i].calibration})

DistinctNames ==
    \A i, j \in Indices(calls) : calls[i].name = calls[j].name => i = j

\* C2: in a worker started with --worker-task K, with pairwise distinct names, the
\* K-th registration (0-based) is the only one that runs its task and emits a Run;
\* every other one returns None, and each registration advances the counter by one.
C2_WorkerTaskRouting ==
    (parsed /\ args.worker /\ args.worker_task /= None /\ DistinctNames) =>
        LET K == args.worker_task[1]
        IN /\ \A i \in Indices(calls) :
                /\ calls[i].id = i - 1
                /\ calls[i].outcome = (IF i - 1 = K THEN "bench" ELSE "skipped")
           /\ (pc = "w_run" => Len(calls) = K /\ worker_task = K)
           /\ (pc = "idle" => worker_task = Len(calls))
           /\ (args.pipe /= None => Len(pipeOut) = (IF Len(calls) > K THEN 1 ELSE 0))

C2_Witness ==
    /\ args.worker /\ args.worker_task = Some(1) /\ DistinctNames
    /\ Len(calls) = 3 /\ calls[2].outcome = "bench" /\ calls[3].outcome = "skipped"
    /\ pipeOut = <<calls[2].name>>

\* C3 as stated: in every mode, a registration whose name was given to an earlier
\* registration fails with "duplicated benchmark name" and runs nothing.
C3_DuplicateFailsEveryMode ==
    /\ \A i, j \in Indices(calls) :
          (i < j /\ calls[i].name = calls[j].name) => calls[j].outcome = "duplicated"
    /\ (pc \in InTry => \A i \in Indices(calls) : calls[i].name /= cur.name)

\* C3 amended: on a Runner run without --worker-task (master, compare or worker
\* mode), a registration whose name was given to an earlier registration fails with
\* "duplicated benchmark name" and runs nothing; with --worker-task K a registration
\* whose id is not K is skipped before its name is checked, and its name is not recorded.
C3_DuplicateFails ==
    /\ (parsed /\ args.worker_task = None) =>
          /\ \A i, j \in Indices(calls) :
                (i < j /\ calls[i].name = calls[j].name) => calls[j].outcome = "duplicated"
          /\ (pc \in InTry => \A i \in Indices(calls) : calls[i].name /= cur.name)
    /\ \A i \in Indices(calls) :
          calls[i].outcome = "skipped" =>
              /\ args.worker_task /= None
              /\ calls[i].id /= args.worker_task[1]
    /\ \A n \in bench_names :
          \/ \E i \in Indices(calls) : calls[i].name = n /\ calls[i].outcome /= "skipped"
          \/ cur.name = n

C3_Witness ==
    /\ args.worker_task = None /\ ~args.worker /\ Len(calls) = 2
    /\ calls[1].outcome = "bench" /\ calls[2].outcome = "duplicated"
    /\ calls[1].name = calls[2].name

\* number of children of this process that are alive
AliveChildren == orphans + (IF Alive(child) THEN 1 ELSE 0)

\* C4: once the master has exited because of an interrupt, no child process it
\* spawned is alive.
C4_NoChildAfterInterrupt ==
    (pc = "exit" /\ exitWhy = "interrupt") => AliveChildren = 0

\* C5: at most one worker child is alive at any time, and a worker is created only
\* after the pipe of the previous one was read to EOF and its wait() returned.
C5_SequentialWorkers ==
    /\ AliveChildren <= 1
    /\ orphans = 0
    /\ (pc = "popened" => Alive(child) \/ child.state = "exited")
    /\ (pc \in {"sw_loop", "merge", "sw_ret", "idle"} => ~Alive(child))
    /\ (pc = "sw_loop" /\ run.process > 1 => child.state = "reaped" /\ rd.kind /= "none")

C5_Witness ==
    pc = "popened" /\ run.process = 2 /\ child.state = "running" /\ Len(run.bench) = 1

\* C7: a run of _spawn_workers spawns a --calibrate worker iff loops is 0 when it
\* starts; that worker is the first of the run and gets --loops 0; the workers after
\* it get --loops of the calibration Run; with loops > 0 every worker gets that value.
C7_CalibrationProtocol ==
    pc \in InRun =>
        \A i \in Indices(cmds) :
            /\ cmds[i].calibrate <=> (i = 1 /\ run.old_loops = 0)
            /\ (i = 1 => cmds[i].loops = run.old_loops)
            /\ (i > 1 /\ run.old_loops = 0 =>
                    /\ run.bench[1].calibration
                    /\ cmds[i].loops = run.bench[1].loops
                    /\ cmds[i].loops \in CalLoops)
            /\ (run.old_loops /= 0 => cmds[i].loops = run.old_loops)

C7_Witness ==
    /\ pc = "popened" /\ run.old_loops = 0 /\ Len(cmds) = 3
    /\ cmds[1].calibrate /\ cmds[1].loops = 0 /\ cmds[3].loops = 4

\* C10: --compare-to given with --output or --append ends the process with a nonzero
\* status when the arguments are processed; no worker is spawned, no file written.
C10_CompareExclusive ==
    (TruthyStr(given.compare_to) /\ (TruthyStr(given.output) \/ TruthyStr(given.append))) =>
        /\ ~everSpawned
        /\ files.output.content = <<>> /\ files.append.content = <<>>
        /\ pipeOut = <<>>
        /\ (parsed => pc = "exit" /\ exitStatus /= 0 /\ exitWhy = "args")

C10_Witness ==
    /\ TruthyStr(given.compare_to) /\ TruthyStr(given.append) /\ ~TruthyStr(given.output)
    /\ ~given.worker /\ parsed /\ pc = "exit" /\ exitStatus = 1

\* the registration operations that returned: they ran the task or skipped it
Returned == {"bench", "compared", "skipped"}

\* number of calls among the first n whose outcome is in the set
CountCalls(n, outcomes) ==
    Cardinality({i \in 1..n : calls[i].outcome \in outcomes})

LastOutcome == IF calls = <<>> THEN "none" ELSE calls[Len(calls)].outcome

\* every command of the sequence starts the given python
AllPython(q, python) == \A i \in Indices(q) : q[i].python = python

\* C11: one registration in compare mode runs the orchestration twice, every worker
\* command of the first pass with the --compare-to python and every one of the second
\* pass with args.python; the second pass spawns nothing before the last worker of the
\* first was waited for; the comparator is called once, after both passes, with
\* (name_ref, bench_ref, name_changed, bench_changed); no file is written.
C11_CompareFlow ==
    (parsed /\ ~args.worker /\ TruthyStr(args.compare_to)) =>
        /\ pc \in InRun =>
              /\ Len(passes) \in {0, 1}
              /\ cur.python = (IF Len(passes) = 0 THEN given.compare_to[1]
                               ELSE given.python)
              /\ AllPython(cmds, cur.python)
              /\ Len(passes) = 1 =>
                    /\ passes[1].python = given.compare_to[1]
                    /\ AllPython(passes[1].cmds, given.compare_to[1])
                    /\ Len(passes[1].cmds) = Len(passes[1].bench)
                    /\ Measured(passes[1].bench) = args.processes
                    /\ cmds = <<>> => child.state = "reaped" /\ orphans = 0
        /\ Len(compared) = CountCalls(Len(calls), {"compared"})
        /\ (pc = "idle" /\ LastOutcome = "compared") =>
              /\ Len(passes) = 2
              /\ AllPython(passes[1].cmds, given.compare_to[1])
              /\ AllPython(passes[2].cmds, given.python)
              /\ Measured(passes[2].bench) = args.processes
              /\ compared[Len(compared)] =
                    <<given.compare_to[1], passes[1].bench, given.python, passes[2].bench>>
        /\ files.output.content = <<>> /\ files.append.content = <<>>
        /\ ~files.append.exists

C11_Witness ==
    /\ pc = "idle" /\ Len(compared) = 1 /\ Len(passes) = 2
    /\ Len(passes[1].cmds) = 3 /\ passes[1].cmds[3].python = "ref"
    /\ Len(passes[2].cmds) = 3 /\ passes[2].cmds[1].python = "python"

\* the outcomes of a registration whose worker failed
WorkerErrors == {"RuntimeError", "ValueError"}

\* the name occurs in the sequence of names
InSeq(name, q) == \E i \in Indices(q) : q[i] = name

\* C12: a worker that exits nonzero or delivers an empty payload makes the master
\* raise RuntimeError, and one that delivers a suite without exactly one Benchmark
\* makes it fail too; the run spawns no further worker, and no result of that
\* registration is displayed, written to --output or appended to --append.
C12_WorkerFailureFatal ==
    /\ (pc = "idle" /\ LastOutcome \in WorkerErrors) =>
          /\ rd.exitcode /= 0 \/ rd.kind \in {"empty", "multi"}
          /\ (rd.exitcode /= 0 \/ rd.kind = "empty") => LastOutcome = "RuntimeError"
          /\ Len(cmds) = run.process
          /\ Len(run.bench) = run.process - 1
          /\ child.state = "reaped"
    /\ (pc \in {"sw_loop", "sw_ret"} /\ run.process > 1) =>
          rd.exitcode = 0 /\ rd.kind = "ok"
    /\ \A i \in Indices(calls) :
          calls[i].outcome \in WorkerErrors =>
              /\ ~InSeq(calls[i].name, files.output.content)
              /\ ~InSeq(calls[i].name, files.append.content)
              /\ ~InSeq(calls[i].name, pipeOut)
    /\ Len(compared) <= CountCalls(Len(calls), {"compared"})

C12_Witness ==
    /\ pc = "idle" /\ LastOutcome = "RuntimeError"
    /\ run.process = 2 /\ run.nprocess = 3 /\ rd.exitcode = 1 /\ rd.kind = "ok"
    /\ TruthyStr(args.output) /\ TruthyStr(args.append)
    /\ Len(calls) = 2 /\ calls[1].outcome = "bench"
    /\ files.output.content = <<calls[1].name>>

\* the names of the benchmarks among the first n calls that ran to their result
RECURSIVE BenchNames(_)
BenchNames(n) ==
    IF n = 0 THEN <<>>
    ELSE IF calls[n].outcome = "bench" THEN Append(BenchNames(n - 1), calls[n].name)
    ELSE BenchNames(n - 1)

\* C14: in master mode with --output FILE, a FILE that did not exist when the
\* arguments were parsed is created by the first benchmark and appended to by each
\* later one, so that it holds the results of all benchmarks run so far, in order;
\* a FILE that existed at the parse makes the process exit nonzero before any
\* worker is spawned (so a FILE seen after the parse was created by this process).
C14_OutputAppendAfterFirst ==
    (parsed /\ ~given.worker /\ TruthyStr(given.output)
        /\ ~TruthyStr(given.compare_to)) =>
        IF pc = "exit" /\ exitWhy = "args"
        THEN exitStatus = 1 /\ ~everSpawned /\ calls = <<>>
             /\ files.output.content = <<>>
        ELSE /\ files.output.content = BenchNames(Len(calls))
             /\ files.output.exists <=> files.output.content /= <<>>

C14_Witness ==
    /\ ~given.worker /\ given.worker_task = None /\ TruthyStr(given.output)
    /\ pc = "idle" /\ Len(calls) = 2 /\ worker_task = 2
    /\ Len(files.output.content) = 2
    /\ files.output.content = <<calls[1].name, calls[2].name>>

\* C15: when _spawn_workers returns normally, args.loops is what it was when the run
\* started; so when loops was 0 at the parse and no run failed, every later run
\* (the next benchmark, the second pass of a comparison) starts with loops 0 and
\* spawns its own calibration worker first.
C15_LoopsRestored ==
    /\ pc = "sw_ret" => args.loops = run.old_loops
    /\ (pc = "idle" /\ ~args.worker /\ LastOutcome \in {"bench", "compared"}) =>
          args.loops = run.old_loops
    /\ (pc \in InRun /\ given.loops = 0 /\ CountCalls(Len(calls), WorkerErrors) = 0) =>
          /\ run.old_loops = 0
          /\ run.nprocess = args.processes + 1
          /\ cmds /= <<>> => cmds[1].calibrate /\ cmds[1].loops = 0

C15_Witness ==
    /\ pc = "popened" /\ Len(calls) = 1 /\ calls[1].outcome = "bench"
    /\ given.loops = 0 /\ args.loops = 0 /\ run.old_loops = 0
    /\ Len(cmds) = 1 /\ cmds[1].calibrate /\ cmds[1].worker_task = 1

\* C16: --worker-task with any value (0 included) or --calibrate, given without
\* --worker, makes the process exit nonzero; with --worker --calibrate the resolved
\* loops, warmups and values are 0.
C16_WorkerOnlyFlags ==
    /\ (parsed /\ ~given.worker /\ (given.worker_task /= None \/ given.calibrate)) =>
          pc = "exit" /\ exitWhy = "args" /\ exitStatus /= 0
    /\ (parsed /\ given.worker /\ given.calibrate /\ exitWhy /= "args") =>
          args.loops = 0 /\ args.warmups = 0 /\ args.values = 0

C18_QuietVerbose ==
    parsed =>
        /\ given.pipe /= None => args.quiet /\ ~args.verbose
        /\ (given.pipe = None /\ given.quiet) => ~args.verbose
        /\ ~(args.quiet /\ args.verbose)

\* C19: every registration that returns (it ran its task in master, compare or
\* worker mode, or it was skipped) increases _worker_task by one and nothing else
\* changes it: the counter is the number of registrations that returned so far, each
\* registration is called with that number as its id, and every worker command the
\* master builds for a registration carries --worker-task=<that number>.
C19_TaskIdCounter ==
    /\ worker_task = CountCalls(Len(calls), Returned)
    /\ \A i \in Indices(calls) : calls[i].id = CountCalls(i - 1, Returned)
    /\ pc \in InRun =>
          /\ \A j \in Indices(cmds) : cmds[j].worker_task = worker_task
          /\ \A k \in Indices(passes) :
                \A j \in Indices(passes[k].cmds) :
                    passes[k].cmds[j].worker_task = worker_task

C19_Witness ==
    /\ pc = "popened" /\ Len(calls) = 1 /\ calls[1].outcome = "RuntimeError"
    /\ worker_task = 0 /\ Len(cmds) = 1 /\ cmds[1].worker_task = 0

\* C22: in a master run the Run of the i-th worker spawned is the i-th Run of the
\* aggregate; each worker's Run is added before the next worker is spawned, so while
\* worker i+1 exists and is not merged yet the aggregate holds the Runs of the
\* workers 1..i, and the returned Benchmark has them in spawn order.
C22_AggregationOrder ==
    pc \in InRun =>
        /\ \A i \in Indices(run.bench) : run.bench[i].process = i
        /\ \A i \in Indices(run.bench) :
              /\ run.bench[i].calibration = cmds[i].calibrate
              /\ ~cmds[i].calibrate => run.bench[i].loops = cmds[i].loops
        /\ pc \in {"sw_loop", "sw_ret"} =>
              Len(run.bench) = Len(cmds) /\ run.process = Len(cmds) + 1
        /\ pc \in {"popened", "read", "wait", "merge"} =>
              Len(run.bench) = Len(cmds) - 1 /\ run.process = Len(cmds)
        /\ pc = "sw_ret" => Len(run.bench) = run.nprocess

C22_Witness ==
    /\ pc = "popened" /\ run.process = 3 /\ Len(cmds) = 3 /\ Len(run.bench) = 2
    /\ run.bench[1].process = 1 /\ run.bench[1].calibration
    /\ run.bench[2].process = 2 /\ ~run.bench[2].calibration

\* the master's side of a program: for each registration of the sequence, the id
\* the master puts into --worker-task when it spawns the workers of that
\* registration, or None when _main rejects the name as duplicated (the program
\* catches the error and goes on); the workers are taken to succeed
RECURSIVE MasterTaskIds(_, _, _)
MasterTaskIds(names, seen, wt) ==
    IF names = <<>> THEN <<>>
    ELSE LET name == Head(names)
         IN IF Duplicated(name, seen)
            THEN <<None>> \o MasterTaskIds(Tail(names), seen, wt)
            ELSE <<Some(wt)>> \o
                 MasterTaskIds(Tail(names), seen \cup {name}, NextTaskId(wt))

\* the names of the registrations called so far: the program
Program == [i \in Indices(calls) |-> calls[i].name]

\* C24: the worker started with --worker-task K runs the registration for which the
\* master, running the same program, spawned the workers with --worker-task K, and
\* no other one.
C24_TaskAgreement ==
    (parsed /\ args.worker /\ args.worker_task /= None) =>
        LET ids == MasterTaskIds(Program, {}, 0)
        IN \A j \in Indices(calls) :
              ids[j] = args.worker_task =>
                  /\ calls[j].outcome = "bench"
                  /\ \A i \in Indices(calls) : calls[i].outcome = "bench" => i = j

\* C25: when _spawn_workers ends by raising because a worker failed, also after a
\* calibration worker that succeeded, args.loops is what it was when the run started,
\* so the next registration starts from the arguments as they were resolved.
C25_LoopsUnchangedOnError ==
    (parsed /\ ~args.worker /\ pc = "idle" /\ LastOutcome \in WorkerErrors) =>
        /\ args.loops = run.old_loops
        /\ CountCalls(Len(calls), WorkerErrors) = 1 => args = ProcessArgs(given, defaults)

----------------------------------------------------------------------------
(* Specification of a process on a machine with isolated CPUs, or run with --affinity *)

\* what get_isolated_cpus() finds: nothing, or CPUs 2 and 3
IsolatedCpus == {{}, {2, 3}}

\* --affinity: not given, or "0,2-3"
AffinityGiven == {None, Some(<<<<0, 0>>, <<2, 3>>>>)}

InitPin ==
    /\ defaults = RunnerDefaults
    /\ \E w \in BOOLEAN, l \in LoopsGiven, wt \in {None, Some(1)},
          cmp \in OptStr("ref"), aff \in AffinityGiven, q \in BOOLEAN,
          fd \in {None, Some(3)} :
          /\ (~w => fd = None /\ wt = None /\ ~q)
          /\ (w => cmp = None)
          /\ args = [DefaultArgs(defaults) EXCEPT
                        !.worker = w, !.processes = 1, !.loops = l, !.worker_task = wt,
                        !.compare_to = cmp, !.affinity = aff, !.quiet = q, !.pipe = fd]
    /\ given = args
    /\ files = [output |-> NoFile, append |-> NoFile]
    /\ cal = NoCal
    /\ \E iso \in IsolatedCpus, cp \in BOOLEAN : env = [isolated |-> iso, canPin |-> cp]
    /\ InitRest

SpecPin == InitPin /\ [][Next]_vars

\* C13: when --affinity is not given and the machine has isolated CPUs that can be
\* pinned, then in a master run args.affinity holds that set and every worker
\* command the master builds carries --affinity=<that set>.
C13_AffinityInherited ==
    (parsed /\ ~args.worker /\ given.affinity = None /\ env.isolated /= {}
        /\ env.canPin /\ pc \in InRun) =>
        /\ args.affinity = Some(FormatCpuList(env.isolated))
        /\ \A i \in Indices(cmds) : cmds[i].affinity = Some(FormatCpuList(env.isolated))

\* C21: in a worker that cannot be pinned, an explicit --affinity list makes the
\* process exit with status 1 before any Run is created or emitted; an auto-detected
\* isolated set makes each task that is run print one warning (none under quiet),
\* leaves args.affinity unset and lets the Run be created and emitted; without
\* isolated CPUs and without --affinity nothing is attempted and the arguments stay
\* as resolved. Nothing else makes the pinning fatal.
C21_PinningFailure ==
    (parsed /\ args.worker) =>
        /\ (given.affinity /= None /\ ~env.canPin) =>
              /\ CountCalls(Len(calls), {"bench", "OSError"}) = 0
              /\ pipeOut = <<>>
              /\ pc /= "w_run" => (pc = "exit" \/ CountCalls(Len(calls), {"skipped"}) = Len(calls))
        /\ exitWhy = "affinity" =>
              /\ given.affinity /= None /\ ~env.canPin
              /\ pc = "exit" /\ exitStatus = 1
        /\ (given.affinity = None /\ env.isolated /= {} /\ ~env.canPin) =>
              /\ args.affinity = None
              /\ obs.warnings = (IF args.quiet THEN 0
                                 ELSE CountCalls(Len(calls), {"bench", "OSError"}))
              /\ args.pipe /= None => Len(pipeOut) = CountCalls(Len(calls), {"bench"})
        /\ (given.affinity = None /\ env.isolated = {}) =>
              /\ args = ProcessArgs(given, defaults)
              /\ obs.warnings = 0

C21_Witness ==
    /\ args.worker /\ given.affinity = None /\ env.isolated = {2, 3} /\ ~env.canPin
    /\ ~args.quiet /\ pc = "idle" /\ Len(calls) = 1 /\ calls[1].outcome = "bench"
    /\ obs.warnings = 1 /\ args.affinity = None

----------------------------------------------------------------------------
(* Specification of a program that calls parse_args again between its registrations *)

InitParse ==
    /\ InitPin
    /\ env = PlainMachine
    /\ args.affinity = None
    /\ ~args.quiet

NextParse == Next \/ ParseArgsAgain \/ ParseArgsExplicit

SpecParse == InitParse /\ [][NextParse]_vars

\* the arguments without loops, which _spawn_workers changes during a run
WithoutLoops(a) == [a EXCEPT !.loops = 0]

\* C20: _process_args runs at most once on a Runner, whatever is registered and
\* however often parse_args is called: a later parse_args() returns the resolved
\* arguments, a later parse_args(args) raises 'arguments already parsed', and both
\* leave the resolved arguments as the first parse made them.
C20_ResolvedOnce ==
    /\ obs.resolved = (IF parsed THEN 1 ELSE 0)
    /\ obs.parse \in {"returned", "raised"} => parsed
    /\ obs.parse = "none" <=> ~parsed
    /\ parsed => WithoutLoops(args) = WithoutLoops(ProcessArgs(given, defaults))
    /\ (parsed /\ pc = "idle" /\ ~args.worker
           /\ CountCalls(Len(calls), WorkerErrors) = 0) =>
          args = ProcessArgs(given, defaults)

C20_Witness ==
    /\ parsed /\ pc = "idle" /\ obs.parse = "raised" /\ obs.resolved = 1
    /\ Len(calls) = 2 /\ calls[1].outcome = "bench" /\ calls[2].outcome = "bench"
    /\ args = ProcessArgs(given, defaults)

----------------------------------------------------------------------------
(* Specification of a worker that creates Runs, over the counts it may be given *)

InitRange ==
    /\ defaults = RunnerDefaults
    /\ \E r \in BOOLEAN, f \in BOOLEAN, dbg \in BOOLEAN, c \in BOOLEAN,
          wu \in 0..MaxOpt, n \in 1..MaxOpt :
          args = [DefaultArgs(defaults) EXCEPT
                     !.worker = TRUE, !.rigorous = r, !.fast = f,
                     !.debug_single_value = dbg, !.calibrate = c,
                     !.warmups = wu, !.values = n]
    /\ given = args
    /\ files = [output |-> NoFile, append |-> NoFile]
    /\ cal = NoCal
    /\ env = PlainMachine
    /\ InitRest

NextRange ==
    \/ ParseArgs
    \/ \E name \in Names : RegisterWorker(name)
    \/ WorkerRun

SpecRange == InitRange /\ [][NextRange]_vars

\* C23: the iteration plan of a Run has exactly `warmups` warmup entries numbered
\* 1..warmups in ascending order, then exactly `values` value entries numbered
\* 1..values in ascending order, and no warmup entry after a value entry; under
\* --calibrate (warmups = values = 0) it is empty.
C23_IterationPlan ==
    (parsed /\ args.worker /\ CountCalls(Len(calls), {"bench", "OSError"}) >= 1) =>
        LET p == obs.plan
        IN /\ Len(p) = args.warmups + args.values
           /\ \A i \in 1..args.warmups : p[i] = <<TRUE, i>>
           /\ \A i \in 1..args.values : p[args.warmups + i] = <<FALSE, i>>
           /\ \A i, j \in Indices(p) : (i < j /\ ~p[i][1]) => ~p[j][1]
           /\ Cardinality({i \in Indices(p) : p[i][1]}) = args.warmups
           /\ Cardinality({i \in Indices(p) : ~p[i][1]}) = args.values
           /\ given.calibrate => p = <<>>

C23_Witness ==
    /\ args.worker /\ ~given.calibrate /\ args.warmups = 2 /\ args.values = 2
    /\ Len(calls) = 1 /\ calls[1].outcome = "bench"
    /\ obs.plan = <<<<TRUE, 1>>, <<TRUE, 2>>, <<FALSE, 1>>, <<FALSE, 2>>>>

----------------------------------------------------------------------------
(* Specification of the calibrator alone *)

InitCal ==
    /\ defaults = RunnerDefaults
    /\ args = DefaultArgs(defaults)
    /\ given = args
    /\ files = [output |-> NoFile, append |-> NoFile]
    /\ \E mn \in 1..MaxTime, mx \in 1..MaxTime :
          cal = [NoCal EXCEPT !.state = "measure", !.loops = 1, !.min_time = mn,
                              !.max_time = mx]
    /\ env = PlainMachine
    /\ InitRest

NextCal == CalMeasure \/ CalReturn \/ CalDouble

SpecCal == InitCal /\ [][NextCal]_vars

IsPowerOfTwo(n) == \E k \in 0..MaxCalLoops : 2 ^ k = n

\* C6 as stated: the duration measured at the returned loops is >= min_time, the one
\* measured at loops / 2 was < min_time, and loops is a power of two.
C6_ReachesMinTime ==
    cal.state = "done" =>
        /\ cal.dt >= cal.min_time
        /\ (cal.loops > 1 => cal.prev < cal.min_time)
        /\ IsPowerOfTwo(cal.loops)

\* C6 amended: the duration measured at the returned loops is >= min_time or
\* >= max_time / 2 (so >= min_time whenever max_time >= 2 * min_time); if loops > 1
\* the duration measured at loops / 2 was < min_time; loops is a power of two.
C6_ReachesMinTimeOrHalfMax ==
    cal.state = "done" =>
        /\ cal.dt >= cal.min_time \/ 2 * cal.dt >= cal.max_time
        /\ (cal.max_time >= 2 * cal.min_time => cal.dt >= cal.min_time)
        /\ (cal.loops > 1 => cal.prev < cal.min_time /\ 2 * cal.prev < cal.max_time)
        /\ IsPowerOfTwo(cal.loops)

C6_Witness ==
    /\ cal.state = "done" /\ cal.loops = 4 /\ cal.dt < cal.min_time
    /\ 2 * cal.dt >= cal.max_time

----------------------------------------------------------------------------
(* Specification of the argument resolution alone *)

InitPolicy ==
    /\ \E dp \in 1..MaxDefaultProcesses, dv \in 1..MaxDefaultValues :
          defaults = [RunnerDefaults EXCEPT !.processes = dp, !.values = dv]
    /\ \E r \in BOOLEAN, f \in BOOLEAN, dbg \in BOOLEAN, c \in BOOLEAN, w \in BOOLEAN,
          p \in {defaults.processes} \cup (1..MaxOpt),
          n \in {defaults.values} \cup (1..MaxOpt),
          wu \in 0..MaxOpt, l \in 0..MaxOpt :
          args = [DefaultArgs(defaults) EXCEPT
                     !.rigorous = r, !.fast = f, !.debug_single_value = dbg,
                     !.calibrate = c, !.worker = w, !.processes = p, !.values = n,
                     !.warmups = wu, !.loops = l]
    /\ given = args
    /\ files = [output |-> NoFile, append |-> NoFile]
    /\ cal = NoCal
    /\ env = PlainMachine
    /\ InitRest

NextPolicy == ParseArgs

SpecPolicy == InitPolicy /\ [][NextPolicy]_vars

\* the arguments were processed and the process did not exit
Resolved == parsed /\ pc = "idle"

\* C8 as stated: every accepted flag combination with --debug-single-value and
\* without --calibrate resolves to 1 process, 1 value, 0 warmups and 1 loop.
C8_DebugSingleValueAlways ==
    (Resolved /\ given.debug_single_value /\ ~given.calibrate) =>
        /\ args.processes = 1 /\ args.values = 1
        /\ args.warmups = 0 /\ args.loops = 1

\* C8 amended: every accepted flag combination with --debug-single-value, without
\* --calibrate and with neither --rigorous nor --fast resolves to 1 process,
\* 1 value, 0 warmups and 1 loop; with --rigorous or --fast, --debug-single-value
\* changes nothing.
C8_DebugSingleValue ==
    (Resolved /\ given.debug_single_value /\ ~given.calibrate) =>
        IF ~given.rigorous /\ ~given.fast
        THEN /\ args.processes = 1 /\ args.values = 1
             /\ args.warmups = 0 /\ args.loops = 1
        ELSE /\ args.warmups = given.warmups /\ args.loops = given.loops
             /\ args.min_time = given.min_time

C8_Witness ==
    /\ Resolved /\ given.debug_single_value /\ ~given.rigorous /\ ~given.fast
    /\ given.processes = 2 /\ given.values = 2 /\ given.warmups = 1 /\ given.loops = 0
    /\ args.processes = 1 /\ args.loops = 1

\* the process counts the rigorous / fast rules resolve to
C9_Processes ==
    /\ given.rigorous => args.processes = 2 * defaults.processes
    /\ (~given.rigorous /\ given.fast) =>
          /\ args.processes = Max(defaults.processes \div 2, 3)
          /\ args.processes >= 3

\* the value counts the rigorous / fast rules resolve to
C9_Values ==
    /\ given.rigorous => args.values = given.values
    /\ (~given.rigorous /\ given.fast) =>
          /\ args.values = Max((defaults.values * 2) \div 3, 2)
          /\ args.values >= 2

\* C9 as stated: --rigorous resolves processes to 2 * default_processes and leaves
\* values as given; otherwise --fast resolves processes to max(default_processes
\* div 2, 3) and values to max(default_values * 2 div 3, 2), so processes >= 3 and
\* values >= 2; whatever else is on the command line.
C9_RigorousFastAlways ==
    Resolved => C9_Processes /\ C9_Values

\* C9 amended: the same, but the resolved values are those only when --calibrate
\* is not given; with --worker --calibrate the resolved values is 0.
C9_RigorousFast ==
    Resolved =>
        /\ C9_Processes
        /\ IF given.calibrate THEN args.values = 0 ELSE C9_Values

C9_Witness ==
    /\ Resolved /\ given.fast /\ ~given.rigorous /\ ~given.calibrate
    /\ defaults.processes = 8 /\ defaults.values = 4
    /\ given.processes = 1 /\ given.values = 1
    /\ args.processes = 4 /\ args.values = 2

====
